---- MODULE Spec2Model ----
(***************************************************************************)
(* openmc.model.Model: a container of six sub-objects (geometry,           *)
(* materials, settings, tallies, cmfd, plots) with type-checked property   *)
(* setters, a conditional XML export, a depletion driver and a run method  *)
(* that invokes the transport solver and reads k-effective back.           *)
(*                                                                         *)
(* Python values are records tagged with their class in the field "kind".  *)
(* Materials/Tallies/Plots collections are mutable objects with identity:  *)
(* they live in a heap (a sequence of records) and are denoted by their    *)
(* index in it.                                                            *)
(***************************************************************************)
EXTENDS Integers, Sequences, FiniteSets, TLC

VARIABLES
    self,       \* the Model object: its six private attributes
    heap,       \* the Materials/Tallies/Plots objects that have been created
    pc,         \* position inside the method being executed, "ready" between calls
    last,       \* the most recent call on the model: operation, what kind of
                \* argument it was given, the exception it raised and the
                \* call that raised it, the value it returned
    log,        \* external calls made by the most recent method call, in order
    cmfd_given  \* the cmfd value most recently accepted (constructor or setter)

vars == <<self, heap, pc, last, log, cmfd_given>>

\* ------------------------------------------------------------------ bounds
MaxLen == 2       \* longest list / collection content considered
MaxBatches == 2   \* largest batch number in the settings

\* ------------------------------------------------------------------ values
None == [kind |-> "NoneType"]
IntVal(n) == [kind |-> "int", val |-> n]
CMFD == [kind |-> "CMFD"]
\* a Geometry, reduced to the materials its cells reference
Geometry(mats) == [kind |-> "Geometry", mats |-> mats]
Settings(dagmc, batches, statepoint) ==
    [kind |-> "Settings", dagmc |-> dagmc, batches |-> batches,
     statepoint |-> statepoint]
\* a reference to a collection object of the heap
Ref(r) == [kind |-> "ref", ref |-> r]
\* a plain list or tuple: it can be iterated any number of times
List(items) == [kind |-> "list", items |-> items]
\* a generator or other one-shot iterator: iterating it consumes it
Generator(items) == [kind |-> "generator", items |-> items]

Elems == {"m1", "m2", "t1", "p1"}
ElemType(e) ==
    CASE e \in {"m1", "m2"} -> "Material"
      [] e = "t1" -> "Tally"
      [] e = "p1" -> "Plot"

CollClasses == {"Materials", "Tallies", "Plots"}
ItemClass(cls) ==
    CASE cls = "Materials" -> "Material"
      [] cls = "Tallies" -> "Tally"
      [] cls = "Plots" -> "Plot"

\* the sequences of at most n different members of S
SeqsUpTo(S, n) ==
    {s \in UNION {[1..k -> S] : k \in 0..n} :
        \A i, j \in 1..Len(s) : s[i] = s[j] => i = j}

RECURSIVE Range(_)
Range(s) == IF s = <<>> THEN {} ELSE {Head(s)} \cup Range(Tail(s))

\* ------------------------------------------------------------------ heap
Alloc(h, cls, items) == Append(h, [cls |-> cls, items |-> items])
NewRef(h) == Len(h) + 1

\* isinstance(value, cls) for the classes the setters test against
IsInstance(h, v, cls) ==
    CASE cls = "Iterable" -> v.kind \in {"ref", "list", "generator"}
      [] cls \in CollClasses -> v.kind = "ref" /\ h[v.ref].cls = cls
      [] OTHER -> v.kind = cls

\* what iterating the value yields
Items(h, v) == IF v.kind = "ref" THEN h[v.ref].items ELSE v.items

\* the value as the caller's name denotes it after it has been iterated once
Iterated(v) == IF v.kind = "generator" THEN Generator(<<>>) ELSE v

\* openmc.checkvalue.check_type(name, value, expected_type, expected_iter_type):
\* raises TypeError unless value is an instance of one of the expected types
\* and, when expected_iter_type is given, every item that iterating value
\* yields is an instance of it. TRUE when it returns, FALSE when it raises.
check_type(h, v, expected, expected_iter) ==
    /\ \E cls \in expected : IsInstance(h, v, cls)
    /\ expected_iter # "" =>
         \A i \in 1..Len(Items(h, v)) : ElemType(Items(h, v)[i]) = expected_iter

\* openmc.checkvalue.check_value(name, value, accepted_values)
check_value(v, accepted) == v \in accepted

Result(exc, s, h) == [exc |-> exc, self |-> s, heap |-> h]

\* del coll[:] followed by coll.append(x) for every x the iterable yields
Refill(h, r, items) == [h EXCEPT ![r].items = items]

\* ------------------------------------------------------------------ setters
\* geometry setter that forgets the type check
geometry_setter_unchecked(s, h, geometry) ==
    Result("", [s EXCEPT !.geometry = geometry], h)

geometry_setter(s, h, geometry) ==
    IF ~check_type(h, geometry, {"Geometry"}, "")
    THEN Result("TypeError", s, h)
    ELSE Result("", [s EXCEPT !.geometry = geometry], h)

materials_setter(s, h, materials) ==
    IF ~check_type(h, materials, {"Iterable"}, "Material")
    THEN Result("TypeError", s, h)
    ELSE IF IsInstance(h, materials, "Materials")
    THEN Result("", [s EXCEPT !.materials = materials.ref], h)
    ELSE Result("", s, Refill(h, s.materials, Items(h, Iterated(materials))))

settings_setter(s, h, settings) ==
    IF ~check_type(h, settings, {"Settings"}, "")
    THEN Result("TypeError", s, h)
    ELSE Result("", [s EXCEPT !.settings = settings], h)

\* tallies setter that empties the current collection before checking the value
tallies_setter_clear_first(s, h, tallies) ==
    LET cleared == IF s.tallies = 0 THEN h ELSE Refill(h, s.tallies, <<>>)
    IN  IF ~check_type(h, tallies, {"Iterable"}, "Tally")
        THEN Result("TypeError", s, cleared)
        ELSE IF IsInstance(h, tallies, "Tallies")
        THEN Result("", [s EXCEPT !.tallies = tallies.ref], h)
        ELSE Result("", s, Refill(h, s.tallies, Items(h, Iterated(tallies))))

tallies_setter(s, h, tallies) ==
    IF ~check_type(h, tallies, {"Iterable"}, "Tally")
    THEN Result("TypeError", s, h)
    ELSE IF IsInstance(h, tallies, "Tallies")
    THEN Result("", [s EXCEPT !.tallies = tallies.ref], h)
    ELSE Result("", s, Refill(h, s.tallies, Items(h, Iterated(tallies))))

\* cmfd setter that stores the value before checking it
cmfd_setter_store_first(s, h, cmfd) ==
    IF ~check_type(h, cmfd, {"CMFD", "NoneType"}, "")
    THEN Result("TypeError", [s EXCEPT !.cmfd = cmfd], h)
    ELSE Result("", [s EXCEPT !.cmfd = cmfd], h)

cmfd_setter(s, h, cmfd) ==
    IF ~check_type(h, cmfd, {"CMFD", "NoneType"}, "")
    THEN Result("TypeError", s, h)
    ELSE Result("", [s EXCEPT !.cmfd = cmfd], h)

plots_setter(s, h, plots) ==
    IF ~check_type(h, plots, {"Iterable"}, "Plot")
    THEN Result("TypeError", s, h)
    ELSE IF IsInstance(h, plots, "Plots")
    THEN Result("", [s EXCEPT !.plots = plots.ref], h)
    ELSE Result("", s, Refill(h, s.plots, Items(h, Iterated(plots))))

\* ------------------------------------------------------------------ __init__
\* an attribute that has not been assigned yet
Unset == [kind |-> "unset"]
Blank == [geometry |-> Unset, materials |-> 0, settings |-> Unset,
          tallies |-> 0, cmfd |-> Unset, plots |-> 0]

\* self.<attr> = v: the assignment runs the setter of the property
SetAttr(attr, s, h, v) ==
    CASE attr = "geometry" -> geometry_setter(s, h, v)
      [] attr = "materials" -> materials_setter(s, h, v)
      [] attr = "settings" -> settings_setter(s, h, v)
      [] attr = "tallies" -> tallies_setter(s, h, v)
      [] attr = "cmfd" -> cmfd_setter(s, h, v)
      [] attr = "plots" -> plots_setter(s, h, v)

\* the next assignment of __init__ runs unless an earlier one has raised
Then(r, attr, v) == IF r.exc # "" THEN r ELSE SetAttr(attr, r.self, r.heap, v)
\* the same for an assignment guarded by "if v is not None"
ThenGiven(r, attr, v) == IF v = None THEN r ELSE Then(r, attr, v)
\* the same for the assignment of a freshly made collection
ThenNew(r, attr, cls) ==
    IF r.exc # "" THEN r
    ELSE SetAttr(attr, r.self, Alloc(r.heap, cls, <<>>), Ref(NewRef(r.heap)))

init(h, a) ==
    LET r1 == SetAttr("geometry", Blank, h, Geometry(<<>>))
        r2 == ThenNew(r1, "materials", "Materials")
        r3 == Then(r2, "settings", Settings(FALSE, None, None))
        r4 == Then(r3, "cmfd", a.cmfd)
        r5 == ThenNew(r4, "tallies", "Tallies")
        r6 == ThenNew(r5, "plots", "Plots")
        r7 == ThenGiven(r6, "geometry", a.geometry)
        r8 == ThenGiven(r7, "materials", a.materials)
        r9 == ThenGiven(r8, "settings", a.settings)
        r10 == ThenGiven(r9, "tallies", a.tallies)
    IN  ThenGiven(r10, "plots", a.plots)

\* ------------------------------------------------------------------ inputs
Geoms == {Geometry(<<>>), Geometry(<<"m2", "m1">>)}
\* settings.statepoint: None, or a dict that may have the key 'batches'
Statepoints ==
    {None, <<>>} \cup {[batches |-> b] : b \in SeqsUpTo(1..MaxBatches, 2)}
SettingsAll ==
    {Settings(FALSE, None, None)} \cup
    {Settings(d, IntVal(b), sp) :
        d \in BOOLEAN, b \in 1..MaxBatches, sp \in Statepoints}
SettingsFew == {Settings(FALSE, None, None), Settings(TRUE, IntVal(1), None)}
Methods == {"cecm", "predictor", "CECM", "rk4"}

\* the collections the caller holds: those it made before constructing the model
Refs(h) == {Ref(r) : r \in 1..(Len(h) - 3)}
\* the items offered to the setter of an attribute: those of the right class
\* and some of a wrong one
Offered(attr) ==
    CASE attr = "materials" -> {"m1", "m2", "t1"}
      [] attr = "tallies" -> {"t1", "p1"}
      [] attr = "plots" -> {"p1", "m1"}
Iterables(attr) ==
    {List(s) : s \in SeqsUpTo(Offered(attr), MaxLen)} \cup
    {Generator(s) : s \in SeqsUpTo(Offered(attr), MaxLen)}
Scalars == {None, IntVal(1), CMFD} \cup Geoms \cup SettingsFew
\* the values a caller hands to the setters of geometry, settings and cmfd
ScalarArgs(h) == Scalars \cup Refs(h) \cup {List(<<>>)}
\* the values a caller hands to the setters of materials, tallies and plots
CollArgs(h, attr) ==
    {None, IntVal(1), Geometry(<<>>)} \cup Refs(h) \cup Iterables(attr)

\* ------------------------------------------------------------------ call record
\* Why a value is of the wrong type for an attribute, "" when it is not.
WrongType(attr, h, v) ==
    LET elem == CASE attr = "materials" -> "Material"
                  [] attr = "tallies" -> "Tally"
                  [] attr = "plots" -> "Plot"
                  [] OTHER -> ""
        yields == IF v.kind = "ref" THEN h[v.ref].items
                  ELSE IF v.kind \in {"list", "generator"} THEN v.items
                  ELSE <<>>
    IN  CASE attr = "geometry" ->
               IF v.kind = "Geometry" THEN "" ELSE "not a Geometry"
          [] attr = "settings" ->
               IF v.kind = "Settings" THEN "" ELSE "not a Settings"
          [] attr = "cmfd" ->
               IF v.kind \in {"CMFD", "NoneType"} THEN "" ELSE "not a CMFD or None"
          [] OTHER ->
               IF v.kind \notin {"ref", "list", "generator"} THEN "not iterable"
               ELSE IF \E e \in Range(yields) : ElemType(e) # elem
                    THEN "wrong element"
                    ELSE ""

\* The collection class that goes with an attribute.
ClassOf(attr) ==
    CASE attr = "materials" -> "Materials"
      [] attr = "tallies" -> "Tallies"
      [] attr = "plots" -> "Plots"
      [] OTHER -> ""

Call(op) ==
    [op |-> op, exc |-> "", by |-> "", ret |-> "", why |-> "", given |-> "",
     items |-> <<>>, ref |-> 0]

\* The record of the assignment "model.<attr> = v": what was given (a
\* collection of the attribute's class, by reference; or a plain iterable,
\* by the items it holds) and the exception the setter raised.
Assignment(attr, h, v, exc) ==
    LET why == WrongType(attr, h, v)
        coll == v.kind = "ref" /\ h[v.ref].cls = ClassOf(attr)
        plain == ClassOf(attr) # "" /\ why = "" /\ ~coll
    IN  [op |-> attr, exc |-> exc, by |-> IF exc = "" THEN "" ELSE "check_type",
         ret |-> "", why |-> why,
         given |-> IF why # "" THEN ""
                   ELSE IF coll THEN "collection"
                   ELSE IF plain THEN v.kind ELSE "",
         items |-> IF plain THEN (IF v.kind = "ref" THEN h[v.ref].items ELSE v.items)
                   ELSE <<>>,
         ref |-> IF coll /\ why = "" THEN v.ref ELSE 0]

\* ------------------------------------------------------------------ construction
\* collections the caller made before constructing the model
PreHeaps == {<<>>} \cup {Alloc(<<>>, cls, <<>>) : cls \in CollClasses}
CtorColls(h) == {None} \cup Refs(h) \cup {List(<<e>>) : e \in Elems}

Construct(h, a) ==
    LET r == init(h, a)
    IN  /\ r.exc = ""
        /\ self = r.self
        /\ heap = r.heap
        /\ pc = "ready"
        /\ last = Call("__init__")
        /\ log = <<>>
        /\ cmfd_given = a.cmfd

Init ==
    \E h \in PreHeaps :
      \E a \in [geometry : {None} \cup Geoms, materials : CtorColls(h),
                 settings : {None} \cup SettingsFew, tallies : CtorColls(h),
                 cmfd : {None, CMFD, IntVal(1)}, plots : CtorColls(h)] :
        Construct(h, a)

\* ------------------------------------------------------------------ assignments
Assigned(attr, v, r) ==
    /\ self' = r.self
    /\ heap' = r.heap
    /\ last' = Assignment(attr, heap, v, r.exc)
    /\ UNCHANGED <<pc, log>>

SetGeometry(V) ==
    \E v \in V :
        /\ pc = "ready"
        /\ Assigned("geometry", v, geometry_setter(self, heap, v))
        /\ UNCHANGED cmfd_given

SetMaterials(V) ==
    \E v \in V :
        /\ pc = "ready"
        /\ Assigned("materials", v, materials_setter(self, heap, v))
        /\ UNCHANGED cmfd_given

SetSettings(V) ==
    \E v \in V :
        /\ pc = "ready"
        /\ Assigned("settings", v, settings_setter(self, heap, v))
        /\ UNCHANGED cmfd_given

SetTallies(V) ==
    \E v \in V :
        /\ pc = "ready"
        /\ Assigned("tallies", v, tallies_setter(self, heap, v))
        /\ UNCHANGED cmfd_given

SetCmfd(V) ==
    \E v \in V :
        LET r == cmfd_setter(self, heap, v)
        IN  /\ pc = "ready"
            /\ Assigned("cmfd", v, r)
            /\ cmfd_given' = IF r.exc = "" THEN v ELSE cmfd_given

SetPlots(V) ==
    \E v \in V :
        /\ pc = "ready"
        /\ Assigned("plots", v, plots_setter(self, heap, v))
        /\ UNCHANGED cmfd_given

\* model.<attr>.append(e): the collection is changed in place
AppendTo ==
    \E attr \in {"materials", "tallies", "plots"} : \E e \in Elems :
        /\ pc = "ready"
        /\ ElemType(e) = ItemClass(heap[self[attr]].cls)
        /\ e \notin Range(heap[self[attr]].items)
        /\ Len(heap[self[attr]].items) < MaxLen
        /\ heap' = [heap EXCEPT ![self[attr]].items = Append(@, e)]
        /\ last' = [Call("append") EXCEPT !.ref = self[attr]]
        /\ UNCHANGED <<self, pc, log, cmfd_given>>

Next ==
    \/ SetGeometry(ScalarArgs(heap))
    \/ SetMaterials(CollArgs(heap, "materials"))
    \/ SetSettings(ScalarArgs(heap))
    \/ SetTallies(CollArgs(heap, "tallies"))
    \/ SetCmfd(ScalarArgs(heap))
    \/ SetPlots(CollArgs(heap, "plots"))
    \/ AppendTo

Spec == Init /\ [][Next]_vars

\* ------------------------------------------------------------------ export_to_xml
Ev(call, arg) == [call |-> call, arg |-> arg]

\* a call into another module returns: it is logged and the method goes on
Returns(call, arg, next) ==
    /\ log' = Append(log, Ev(call, arg))
    /\ pc' = next
    /\ UNCHANGED <<self, heap, last, cmfd_given>>

\* it raises: the exception leaves the method
Raises(exc, call) ==
    /\ pc' = "ready"
    /\ last' = [last EXCEPT !.exc = exc, !.by = call]
    /\ UNCHANGED <<self, heap, log, cmfd_given>>

\* nothing is called at this position
Skips(next) ==
    /\ pc' = next
    /\ UNCHANGED <<self, heap, last, log, cmfd_given>>

\* the method returns
Return(value) ==
    /\ pc' = "ready"
    /\ last' = [last EXCEPT !.ret = value]
    /\ UNCHANGED <<self, heap, log, cmfd_given>>

\* Geometry.get_all_materials(): the materials the cells of the geometry reference
get_all_materials(geometry) == geometry.mats

\* geometry export that ignores settings.dagmc
exports_geometry_always(s) == TRUE

exports_geometry(s) == ~s.settings.dagmc

\* materials export that never looks at the geometry
exported_materials_own(s, h) ==
    [items |-> h[s.materials].items, from |-> "self.materials"]

exported_materials(s, h) ==
    IF h[s.materials].items # <<>>
    THEN [items |-> h[s.materials].items, from |-> "self.materials"]
    ELSE [items |-> get_all_materials(s.geometry), from |-> "geometry"]

\* tallies export that is not guarded
exports_tallies_always(s, h) == TRUE

exports_tallies(s, h) == h[s.tallies].items # <<>>

exports_cmfd(s) == s.cmfd # None

exports_plots(s, h) == h[s.plots].items # <<>>

\* run() that opens the statepoint right after the export
after_export_no_solver(op) == IF op = "run" THEN "statepoint" ELSE "ready"

\* where export_to_xml returns to
after_export(op) == IF op = "run" THEN "solver" ELSE "ready"

CallExport ==
    /\ pc = "ready"
    /\ pc' = "settings"
    /\ last' = Call("export_to_xml")
    /\ log' = <<>>
    /\ UNCHANGED <<self, heap, cmfd_given>>

ExportSettings ==
    /\ pc = "settings"
    /\ \/ Returns("settings.export_to_xml", None, "geometry")
       \/ Raises("Error", "settings.export_to_xml")

ExportGeometry ==
    /\ pc = "geometry"
    /\ IF exports_geometry(self)
       THEN \/ Returns("geometry.export_to_xml", None, "materials")
            \/ Raises("Error", "geometry.export_to_xml")
       ELSE Skips("materials")

ExportMaterials ==
    /\ pc = "materials"
    /\ \/ Returns("materials.export_to_xml", exported_materials(self, heap), "tallies")
       \/ Raises("Error", "materials.export_to_xml")

ExportTallies ==
    /\ pc = "tallies"
    /\ IF exports_tallies(self, heap)
       THEN \/ Returns("tallies.export_to_xml", None, "cmfd")
            \/ Raises("Error", "tallies.export_to_xml")
       ELSE Skips("cmfd")

ExportCmfd ==
    /\ pc = "cmfd"
    /\ IF exports_cmfd(self)
       THEN \/ Returns("cmfd.export_to_xml", None, "plots")
            \/ Raises("Error", "cmfd.export_to_xml")
       ELSE Skips("plots")

ExportPlots ==
    /\ pc = "plots"
    /\ IF exports_plots(self, heap)
       THEN \/ Returns("plots.export_to_xml", None, after_export(last.op))
            \/ Raises("Error", "plots.export_to_xml")
       ELSE Skips(after_export(last.op))

\* ------------------------------------------------------------------ run
\* 'statepoint.{}.h5'.format(n)
Format(n) == IF n = None THEN "None" ELSE ToString(n.val)
StatePointName(n) == <<"statepoint", Format(n), "h5">>

\* batch number that takes the first batch listed, not the last
statepoint_batch_first(settings) ==
    IF settings.statepoint # None /\ "batches" \in DOMAIN settings.statepoint
    THEN IF settings.statepoint.batches = <<>>
         THEN [exc |-> "IndexError", n |-> None]
         ELSE [exc |-> "", n |-> IntVal(Head(settings.statepoint.batches))]
    ELSE [exc |-> "", n |-> settings.batches]

\* the batch number n of the statepoint that run() opens
statepoint_batch(settings) ==
    IF settings.statepoint # None /\ "batches" \in DOMAIN settings.statepoint
    THEN IF settings.statepoint.batches = <<>>
         THEN [exc |-> "IndexError", n |-> None]
         ELSE [exc |-> "",
               n |-> IntVal(settings.statepoint.batches[Len(settings.statepoint.batches)])]
    ELSE [exc |-> "", n |-> settings.batches]

CallRun ==
    /\ pc = "ready"
    /\ pc' = "settings"
    /\ last' = Call("run")
    /\ log' = <<>>
    /\ UNCHANGED <<self, heap, cmfd_given>>

RunSolver ==
    /\ pc = "solver"
    /\ \/ Returns("openmc.run", None, "statepoint")
       \/ Raises("Error", "openmc.run")

OpenStatePoint ==
    /\ pc = "statepoint"
    /\ LET b == statepoint_batch(self.settings)
       IN  IF b.exc # ""
           THEN Raises(b.exc, "statepoint['batches'][-1]")
           ELSE \/ Returns("openmc.StatePoint", StatePointName(b.n), "k_combined")
                \/ Raises("Error", "openmc.StatePoint")

ReturnK ==
    /\ pc = "k_combined"
    /\ Return("sp.k_combined")

\* ------------------------------------------------------------------ deplete
\* dispatch that treats every method but 'predictor' as 'cecm'
integrator_default_cecm(method) ==
    IF method = "predictor" THEN "predictor" ELSE "cecm"

\* the branch deplete() takes for a method
integrator(method) ==
    IF method = "predictor" THEN "predictor"
    ELSE IF method = "cecm" THEN "cecm"
    ELSE "check_value"

CallDeplete ==
    \E method \in Methods :
        /\ pc = "ready"
        /\ pc' = "operator"
        /\ last' = [Call("deplete") EXCEPT !.given = method]
        /\ log' = <<>>
        /\ UNCHANGED <<self, heap, cmfd_given>>

MakeOperator ==
    /\ pc = "operator"
    /\ \/ Returns("dep.Operator", None, "integrate")
       \/ Raises("Error", "dep.Operator")

Integrate ==
    /\ pc = "integrate"
    /\ LET branch == integrator(last.given)
       IN  CASE branch = "predictor" ->
                  \/ Returns("dep.integrator.predictor", None, "ready")
                  \/ Raises("Error", "dep.integrator.predictor")
             [] branch = "cecm" ->
                  \/ Returns("dep.integrator.cecm", None, "ready")
                  \/ Raises("Error", "dep.integrator.cecm")
             [] OTHER ->
                  IF check_value(last.given, {"cecm", "predictor"})
                  THEN Skips("ready")
                  ELSE Raises("ValueError", "check_value")

InitRun ==
    \E a \in [geometry : {None} \cup Geoms, materials : {None, List(<<"m1">>)},
               settings : {None} \cup SettingsAll, tallies : {None},
               cmfd : {None, CMFD}, plots : {None, List(<<"p1">>)}] :
        Construct(<<>>, a)

NextRun ==
    \/ AppendTo
    \/ CallExport
    \/ ExportSettings
    \/ ExportGeometry
    \/ ExportMaterials
    \/ ExportTallies
    \/ ExportCmfd
    \/ ExportPlots
    \/ CallRun
    \/ RunSolver
    \/ OpenStatePoint
    \/ ReturnK
    \/ CallDeplete
    \/ MakeOperator
    \/ Integrate

SpecRun == InitRun /\ [][NextRun]_vars

\* ------------------------------------------------------------------ properties
Attrs == {"geometry", "materials", "settings", "tallies", "cmfd", "plots"}
CollAttrs == {"materials", "tallies", "plots"}

\* C1: assigning a value of the wrong type to any of the six attributes raises
\* an error: a non-Geometry for geometry, a non-Settings for settings, anything
\* but a CMFD or None for cmfd, a non-iterable or an iterable holding an item of
\* the wrong class for materials, tallies and plots.
C1_WrongTypeRaises ==
    (last.op \in Attrs /\ last.why # "") => last.exc = "TypeError"

\* a materials assignment of an iterable holding a non-Material has raised
C1_Witness ==
    last.op = "materials" /\ last.why = "wrong element" /\ last.exc = "TypeError"

\* The value of an attribute: for a collection, which object and what it holds.
AttrValue(s, h, attr) ==
    IF attr \in CollAttrs THEN <<s[attr], h[s[attr]].items>> ELSE s[attr]

\* C8: a setter call that raises leaves all six attributes as they were,
\* the identity and contents of the three collections included; a successful
\* assignment to one attribute leaves the other five as they were.
C8_Frame ==
    [][last'.op \in Attrs =>
         /\ last'.exc # "" => (self' = self /\ heap' = heap)
         /\ last'.exc = "" =>
              \A b \in Attrs \ {last'.op} :
                  AttrValue(self', heap', b) = AttrValue(self, heap, b)]_vars

\* a tallies assignment was rejected while the model held tallies
C8_Witness ==
    /\ last.op = "tallies"
    /\ last.exc = "TypeError"
    /\ heap[self.tallies].items # <<>>

\* C9: assigning to materials, tallies or plots a valid iterable that is not
\* a collection of the attribute's class keeps the identity of the current
\* collection object and makes it hold exactly the items of the iterable, in
\* order; assigning a collection of the attribute's class makes the attribute
\* refer to that very object.
C9_ReplaceContents ==
    [][(last'.op \in CollAttrs /\ last'.exc = "") =>
         /\ last'.given # "collection" =>
              /\ self'[last'.op] = self[last'.op]
              /\ heap'[self[last'.op]].items = last'.items
         /\ last'.given = "collection" => self'[last'.op] = last'.ref]_vars

\* C10: at all times geometry is a Geometry, settings is a Settings,
\* materials, tallies and plots are collection objects, and cmfd is a CMFD or
\* None, None exactly when the cmfd value accepted last was None.
C10_AttributeTypes ==
    /\ self.geometry.kind = "Geometry"
    /\ self.settings.kind = "Settings"
    /\ \A a \in CollAttrs :
           self[a] \in 1..Len(heap) /\ heap[self[a]].cls \in CollClasses
    /\ self.cmfd.kind \in {"CMFD", "NoneType"}
    /\ (self.cmfd = None) <=> (cmfd_given = None)

\* a cmfd assignment was rejected and the model still has its CMFD
C10_Witness ==
    last.op = "cmfd" /\ last.exc = "TypeError" /\ self.cmfd = CMFD

\* ------------------------------------------------------------------ properties of the methods
Calls == {log[i].call : i \in 1..Len(log)}
Count(call) == Cardinality({i \in 1..Len(log) : log[i].call = call})
\* the first position of a call in the log, 0 when it has not been made
Index(call) ==
    IF call \in Calls
    THEN CHOOSE i \in 1..Len(log) :
             log[i].call = call /\ \A j \in 1..(i - 1) : log[j].call # call
    ELSE 0

Exporting == last.op \in {"export_to_xml", "run"}
\* the export has come past the step of a file; it has come past all of them
\* when export_to_xml has returned
ExportDone ==
    Exporting /\ \/ pc \in {"solver", "statepoint", "k_combined"}
                 \/ pc = "ready" /\ last.exc = ""
                 \/ pc = "ready" /\ last.by \in {"openmc.run", "openmc.StatePoint",
                                                 "statepoint['batches'][-1]"}
PastMaterials == ExportDone \/ (Exporting /\ pc \in {"tallies", "cmfd", "plots"})

ExportCalls ==
    {"settings.export_to_xml", "geometry.export_to_xml", "materials.export_to_xml",
     "tallies.export_to_xml", "cmfd.export_to_xml", "plots.export_to_xml"}

\* C2: an export exports exactly one materials collection: the materials the
\* geometry references when the model's materials collection is empty, the
\* model's own collection otherwise.
C2_MaterialsExported ==
    /\ Exporting => Count("materials.export_to_xml") <= 1
    /\ PastMaterials =>
         /\ Count("materials.export_to_xml") = 1
         /\ LET m == log[Index("materials.export_to_xml")].arg
            IN  IF heap[self.materials].items = <<>>
                THEN m.from = "geometry" /\ m.items = self.geometry.mats
                ELSE m.from = "self.materials" /\ m.items = heap[self.materials].items

\* an export of a model without materials whose geometry references some
C2_Witness ==
    /\ PastMaterials
    /\ heap[self.materials].items = <<>>
    /\ self.geometry.mats # <<>>
    /\ "materials.export_to_xml" \in Calls

\* C3: an export that returns has exported the tallies file exactly if the
\* tallies collection is not empty, the plots file exactly if the plots
\* collection is not empty, and the cmfd file exactly if cmfd is not None;
\* tallies appended in place to model.tallies are exported.
C3_ConditionalFiles ==
    ExportDone =>
        /\ "tallies.export_to_xml" \in Calls <=> heap[self.tallies].items # <<>>
        /\ "plots.export_to_xml" \in Calls <=> heap[self.plots].items # <<>>
        /\ "cmfd.export_to_xml" \in Calls <=> self.cmfd # None

\* tallies appended after construction (a model is constructed without any
\* here) have been exported, plots and cmfd have not
C3_Witness ==
    /\ ExportDone
    /\ heap[self.tallies].items # <<>>
    /\ "tallies.export_to_xml" \in Calls
    /\ "plots.export_to_xml" \notin Calls
    /\ "cmfd.export_to_xml" \notin Calls

Integrators == {"dep.integrator.cecm", "dep.integrator.predictor"}

\* C4: deplete with a method other than 'cecm' and 'predictor' invokes
\* neither integrator and ends with an error, raised by the check of the
\* method against the accepted values once the operator has been created.
C4_UnknownMethod ==
    (last.op = "deplete" /\ last.given \notin {"cecm", "predictor"}) =>
        /\ Calls \cap Integrators = {}
        /\ pc = "ready" => last.exc # ""
        /\ (pc = "ready" /\ "dep.Operator" \in Calls) =>
               (last.exc = "ValueError" /\ last.by = "check_value")

\* deplete(method='rk4') has raised from the check of the method
C4_Witness ==
    /\ last.op = "deplete"
    /\ last.given = "rk4"
    /\ pc = "ready"
    /\ last.exc = "ValueError"

\* C5, as claimed: the statepoint that run opens is named after
\* settings.batches, whatever the settings.
C5_NamedAfterBatches ==
    "openmc.StatePoint" \in Calls =>
        log[Index("openmc.StatePoint")].arg = StatePointName(self.settings.batches)

\* C5, amended: the statepoint that run opens is named after the last entry of
\* settings.statepoint['batches'] when settings.statepoint is not None and has
\* that key, and after settings.batches otherwise.
C5_NamedAfterLastStatepoint ==
    "openmc.StatePoint" \in Calls =>
        LET sp == self.settings.statepoint
            listed == sp # None /\ "batches" \in DOMAIN sp
        IN  log[Index("openmc.StatePoint")].arg =
                <<"statepoint",
                  IF listed THEN ToString(sp.batches[Len(sp.batches)])
                  ELSE Format(self.settings.batches),
                  "h5">>

\* run has opened a statepoint whose number is not settings.batches
C5_Witness ==
    /\ last.op = "run"
    /\ last.ret = "sp.k_combined"
    /\ self.settings.statepoint # None
    /\ "batches" \in DOMAIN self.settings.statepoint
    /\ self.settings.batches # IntVal(self.settings.statepoint.batches[
                                          Len(self.settings.statepoint.batches)])

\* C6: in a call to run every export step comes before the solver, the solver
\* is invoked at most once and exactly once when run returns, the statepoint
\* is opened only after the solver has returned, and when the export or the
\* solver raises no statepoint is opened and nothing is returned.
C6_RunOrder ==
    last.op = "run" =>
        /\ Count("openmc.run") <= 1
        /\ pc \in {"settings", "geometry", "materials", "tallies", "cmfd", "plots"} =>
               Calls \cap {"openmc.run", "openmc.StatePoint"} = {}
        /\ "openmc.run" \in Calls =>
               /\ {"settings.export_to_xml", "materials.export_to_xml"} \subseteq Calls
               /\ \A i \in 1..Len(log) :
                      log[i].call \in ExportCalls => i < Index("openmc.run")
        /\ "openmc.StatePoint" \in Calls =>
               /\ "openmc.run" \in Calls
               /\ Index("openmc.run") < Index("openmc.StatePoint")
        /\ last.ret # "" =>
               /\ pc = "ready" /\ last.exc = ""
               /\ Count("openmc.run") = 1
               /\ Count("openmc.StatePoint") = 1
        /\ (pc = "ready" /\ last.exc = "") => last.ret = "sp.k_combined"
        /\ last.exc # "" => last.ret = ""
        /\ last.by \in ExportCalls \cup {"openmc.run"} => "openmc.StatePoint" \notin Calls

\* run has returned k-effective
C6_Witness ==
    /\ last.op = "run"
    /\ pc = "ready"
    /\ last.ret = "sp.k_combined"
    /\ Len(log) >= 4

====
